---------------------------- MODULE Spec2Model ----------------------------
(***************************************************************************)
(* Milne-Eddington forward model of inverse_problem/milne_edington/me.py:  *)
(* the parameter derivers, the dispersion profile, the radiative transfer  *)
(* kernel, the filling-factor blend, the noise model, the synthesis facade *)
(* me_model, the wrapper classes HinodeME / BatchHinodeME and the reader   *)
(* read_full_spectra.                                                      *)
(*                                                                         *)
(* Numbers.  The program computes in float64.  The model computes in       *)
(* binary fixed point: a value r is the integer r * 2^FracBits, products   *)
(* and quotients are truncated towards zero.  Lengths are carried in units *)
(* of 1e-11 cm, the factor the program applies to line_arg and to the      *)
(* Doppler width, so that every quantity stays in the fixed-point range.   *)
(* Non-finite values (NaN, Inf) are outside the model: the input rows obey *)
(* the documented ranges (Doppler width > 0, continuum S0 + mu*S1 /= 0).   *)
(* The library functions np.sin, np.cos and scipy.special.wofz are         *)
(* replaced by fixed-point stand-ins; nothing checked below depends on     *)
(* their values beyond their being functions of their arguments.           *)
(*                                                                         *)
(* Arrays.  A numpy array of shape (n1, ..., nk) is a nested sequence; a   *)
(* batch is a sequence of rows, a spectrum is indexed [sample][wave][k].   *)
(***************************************************************************)
EXTENDS Integers, Sequences, FiniteSets, TLC

(* ------------------------------ bounds -------------------------------- *)

\* fractional bits of the fixed-point numbers
FracBits == 12

\* detector rows of one calibrated-spectrum file (512 in the source,
\* me.py:402; the reader's model scales the detector down)
Y_len == 2

\* most files in one files_list
MaxFiles == 3

\* most compute_spectrum calls on one wrapper object
MaxCalls == 2

(* --------------------------- fixed point ------------------------------ *)

Scale == 2 ^ FracBits

Abs(a) == IF a < 0 THEN -a ELSE a

\* x * y for x, y >= 0; large operands are split at the binary point so
\* that no partial product leaves the 32-bit range
MulAbs(x, y) ==
    IF x < 2 ^ 15 /\ y < 2 ^ 15 THEN (x * y) \div Scale
    ELSE (x \div Scale) * (y \div Scale) * Scale
         + (x \div Scale) * (y % Scale) + (x % Scale) * (y \div Scale)
         + ((x % Scale) * (y % Scale)) \div Scale

\* a * b, truncated towards zero
Mul(a, b) == (IF (a < 0) = (b < 0) THEN 1 ELSE -1) * MulAbs(Abs(a), Abs(b))

\* long division: `bits` more binary digits of the quotient, c at a time
RECURSIVE DivBits(_, _, _, _, _)
DivBits(q, r, y, bits, c) ==
    IF bits = 0 THEN q
    ELSE IF c < bits
         THEN DivBits(q * 2 ^ c + (r * 2 ^ c) \div y, (r * 2 ^ c) % y, y, bits - c, c)
         ELSE q * 2 ^ bits + (r * 2 ^ bits) \div y

\* x / y for x >= 0, y > 0
DivAbs(x, y) ==
    IF y < 2 ^ (30 - FracBits) THEN (x \div y) * Scale + ((x % y) * Scale) \div y
    ELSE DivBits(x \div y, x % y, y, FracBits,
                 IF y < 2 ^ 24 THEN 6 ELSE IF y < 2 ^ 27 THEN 3 ELSE 1)

\* a / b (b /= 0), truncated towards zero
Div(a, b) == (IF (a < 0) = (b < 0) THEN 1 ELSE -1) * DivAbs(Abs(a), Abs(b))

\* the number num / den
Fx(num, den) == (num * Scale) \div den

\* the integer n
FxInt(n) == n * Scale

Pi == Fx(355, 113)

SqrtPi == Fx(39, 22)

\* t - t^3/3! + t^5/5! - t^7/7!, given t and t^2
SinSeries(t, t2) ==
    t - Mul(Mul(Mul(t, t2), FxInt(1) - Mul(t2, Fx(1, 20) - Mul(t2, Fx(1, 840)))), Fx(1, 6))

SinCore(t) == SinSeries(t, Mul(t, t))

\* sine of an angle r in [0, 2 pi)
SinReduced(r) ==
    IF 2 * r <= Pi THEN SinCore(r)
    ELSE SinCore((IF 2 * r <= 3 * Pi THEN Pi ELSE 2 * Pi) - r) * (IF 2 * r <= 3 * Pi THEN 1 ELSE -1)

\* np.sin
Sin(t) == SinReduced(t % (2 * Pi))

\* np.cos
Cos(t) == Sin(t + Pi \div 2)

\* the sequence s with its elements evaluated once (TLC keeps a function
\* expression unevaluated and would recompute an element at each use)
Eager(s) == s \o <<>>

SeqMax(s) == CHOOSE m \in {s[j] : j \in 1..Len(s)} : \A j \in 1..Len(s) : s[j] <= m

(* ------------------------ physical constants -------------------------- *)

\* line_vector = (6302.5, 2.5, 1): the Lande-like factor and mu
line_vector == [g |-> Fx(5, 2), mu |-> FxInt(1)]

\* number of points of the default wavelength grid
WavePoints == 56

\* 1000 * (np.linspace(6302.0692255, 6303.2544205, 56) - 6302.5), in mA
default_line_arg == [j \in 1..WavePoints |-> Fx(-43077 + (j - 1) * 2155, 100)]

\* wl0 * wl0 * el_c / (4 * pi * mass * c * c), per unit of Doppler width
ZeemanConst == Fx(18526, 1000000)

\* 1e5 / c * wl0, in the unit of line_arg
ShiftConst == Fx(21008, 1000)

absolute_noise_levels == <<FxInt(109), FxInt(28), FxInt(28), FxInt(44)>>

(* ---------------------- dispersion profile ---------------------------- *)

\* scipy.special.wofz(v + a*1j) as <<real, imag>>: the one-pole stand-in
\* i / (z + i)
faddeeva(v, a) ==
    LET a1 == a + FxInt(1)
        den == Mul(v, v) + Mul(a1, a1)
    IN  <<Div(a1, den), Div(v, den)>>

(* ------------------- radiative transfer kernel ------------------------ *)

\* _comp_numba, one element of its (W, N) arrays at a time.
\* etta_p, etta_b, etta_r, rho_p, rho_b, rho_r from the three profiles
\* f1, f2, f3 = <<H, L>>
Profiles(f1, f2, f3) ==
    << Div(f1[1], SqrtPi), Div(f2[1], SqrtPi), Div(f3[1], SqrtPi),
       Div(f1[2], SqrtPi), Div(f2[2], SqrtPi), Div(f3[2], SqrtPi) >>

\* 0.5 * (p - 0.5 * (b + r)), the factor of h_Q, h_U, r_Q and r_U
PiMinusSigma(p, b, r) == Mul(Fx(1, 2), p - Mul(Fx(1, 2), b + r))

\* ProfileCombinations with a sign slip in h_V: etta_r + etta_b
ProfileCombinationsSignSlip(e, sin_theta2, cos_theta, sin2xi, cos2xi) ==
    << Mul(Fx(1, 2), Mul(e[1], sin_theta2)
           + Mul(Mul(Fx(1, 2), e[2] + e[3]), FxInt(1) + Mul(cos_theta, cos_theta))),
       Mul(Mul(PiMinusSigma(e[1], e[2], e[3]), sin_theta2), cos2xi),
       Mul(Mul(PiMinusSigma(e[1], e[2], e[3]), sin_theta2), sin2xi),
       Mul(Mul(Fx(1, 2), e[3] + e[2]), cos_theta),
       Mul(Mul(PiMinusSigma(e[4], e[5], e[6]), sin_theta2), cos2xi),
       Mul(Mul(PiMinusSigma(e[4], e[5], e[6]), sin_theta2), sin2xi),
       Mul(Mul(Fx(1, 2), e[6] - e[5]), cos_theta) >>

\* <<h_I, h_Q, h_U, h_V, r_Q, r_U, r_V>> from e = Profiles(...)
ProfileCombinations(e, sin_theta2, cos_theta, sin2xi, cos2xi) ==
    << Mul(Fx(1, 2), Mul(e[1], sin_theta2)
           + Mul(Mul(Fx(1, 2), e[2] + e[3]), FxInt(1) + Mul(cos_theta, cos_theta))),
       Mul(Mul(PiMinusSigma(e[1], e[2], e[3]), sin_theta2), cos2xi),
       Mul(Mul(PiMinusSigma(e[1], e[2], e[3]), sin_theta2), sin2xi),
       Mul(Mul(Fx(1, 2), e[3] - e[2]), cos_theta),
       Mul(Mul(PiMinusSigma(e[4], e[5], e[6]), sin_theta2), cos2xi),
       Mul(Mul(PiMinusSigma(e[4], e[5], e[6]), sin_theta2), sin2xi),
       Mul(Mul(Fx(1, 2), e[6] - e[5]), cos_theta) >>

\* <<k_I, k_Q, k_U, k_V, f_Q, f_U, f_V>> from h = ProfileCombinations(...)
Coefficients(ka_L, h) ==
    << Mul(ka_L, h[1]), Mul(ka_L, h[2]), Mul(ka_L, h[3]), Mul(ka_L, h[4]),
       Mul(ka_L, h[5]), Mul(ka_L, h[6]), Mul(ka_L, h[7]) >>

\* <<k_I1, k_I2, f_Q2, f_U2, f_V2, kf_sum>> from k = Coefficients(...)
Squares(k) ==
    << FxInt(1) + k[1],
       Mul(FxInt(1) + k[1], FxInt(1) + k[1]),
       Mul(k[5], k[5]), Mul(k[6], k[6]), Mul(k[7], k[7]),
       Mul(k[2], k[5]) + Mul(k[3], k[6]) + Mul(k[4], k[7]) >>

\* det, from k = Coefficients(...) and s = Squares(k)
Det(k, s) ==
    Mul(s[2], s[2])
    + Mul(s[2], s[3] + s[4] + s[5] - Mul(k[2], k[2]) - Mul(k[3], k[3]) - Mul(k[4], k[4]))
    - Mul(s[6], s[6])

\* <<I, Q, U, V>> from k, s = Squares(k), det1 = 1 / det and
\* mult = muS_1 * det1
Emergent(k, s, det1, mult, S_0, muS_1) ==
    << S_0 + muS_1
         - Mul(muS_1, FxInt(1) - Mul(Mul(s[1], det1), s[2] + s[3] + s[4] + s[5])),
       Mul(-mult, Mul(s[2], k[2]) - Mul(s[1], Mul(k[3], k[7]) - Mul(k[4], k[6]))
                  + Mul(k[5], s[6])),
       Mul(-mult, Mul(s[2], k[3]) - Mul(s[1], Mul(k[4], k[5]) - Mul(k[2], k[7]))
                  + Mul(k[6], s[6])),
       Mul(mult, Mul(s[2], k[4]) + Mul(k[7], s[6])) >>

Solve3(k, s, det1, S_0, muS_1) == Emergent(k, s, det1, Mul(muS_1, det1), S_0, muS_1)

Solve2(k, s, S_0, muS_1) == Solve3(k, s, Div(FxInt(1), Det(k, s)), S_0, muS_1)

\* the closed-form solution for the coefficients k
Solve(k, S_0, muS_1) == Solve2(k, Squares(k), S_0, muS_1)

StokesCell(f1, f2, f3, ka_L, sin_theta2, cos_theta, sin2xi, cos2xi, S_0, muS_1) ==
    Solve(Coefficients(ka_L, ProfileCombinations(Profiles(f1, f2, f3), sin_theta2,
                                                 cos_theta, sin2xi, cos2xi)),
          S_0, muS_1)

\* _comp_numba: H and L are (W, N) arrays given as pairs F[w][i] = <<H, L>>,
\* the per-sample vectors broadcast along the last axis; the result is
\* np.transpose(np.stack((I, Q, U, V))), of shape (N, W, 4)
_comp_numba(mu, F1, F2, F3, theta, xi, etta_0, S_0, S_1) ==
    LET N == Len(theta)
        ka_L == Eager([i \in 1..N |-> Mul(etta_0[i], SqrtPi)])
        sin_theta2 == Eager([i \in 1..N |-> Mul(Sin(theta[i]), Sin(theta[i]))])
        cos_theta == Eager([i \in 1..N |-> Cos(theta[i])])
        sin2xi == Eager([i \in 1..N |-> Sin(2 * xi[i])])
        cos2xi == Eager([i \in 1..N |-> Cos(2 * xi[i])])
        muS_1 == Eager([i \in 1..N |-> Mul(mu, S_1[i])])
    IN  Eager([i \in 1..N |->
            Eager([w \in 1..Len(F1) |->
                StokesCell(F1[w][i], F2[w][i], F3[w][i], ka_L[i], sin_theta2[i],
                           cos_theta[i], sin2xi[i], cos2xi[i], S_0[i], muS_1[i])])])

\* _compute_spectrum with the Doppler shift of the first sample applied to
\* every sample
ComputeSpectrumSharedShift(p, line_arg, line_vec) ==
    LET N == Len(p[1])
        W == Len(line_arg)
        v(w, i) == Div(line_arg[w] - p[9][1], p[4][i])
        v_b == Eager([i \in 1..N |-> Div(Mul(p[1][i], ZeemanConst), p[4][i])])
        gvb == Eager([i \in 1..N |-> Mul(line_vec.g, v_b[i])])
        F1 == [w \in 1..W |-> [i \in 1..N |-> faddeeva(v(w, i), p[5][i])]]
        F2 == [w \in 1..W |-> [i \in 1..N |-> faddeeva(v(w, i) - gvb[i], p[5][i])]]
        F3 == [w \in 1..W |-> [i \in 1..N |-> faddeeva(v(w, i) + gvb[i], p[5][i])]]
    IN  _comp_numba(line_vec.mu, F1, F2, F3, p[2], p[3], p[6], p[7], p[8])

\* _compute_spectrum; p is the 9-tuple of per-sample vectors
\* <<B, theta, xi, D, gamma, etta_0, S_0, S_1, Dop_shift>>
_compute_spectrum(p, line_arg, line_vec) ==
    LET N == Len(p[1])
        W == Len(line_arg)
        v(w, i) == Div(line_arg[w] - p[9][i], p[4][i])
        v_b == Eager([i \in 1..N |-> Div(Mul(p[1][i], ZeemanConst), p[4][i])])
        gvb == Eager([i \in 1..N |-> Mul(line_vec.g, v_b[i])])
        F1 == [w \in 1..W |-> [i \in 1..N |-> faddeeva(v(w, i), p[5][i])]]
        F2 == [w \in 1..W |-> [i \in 1..N |-> faddeeva(v(w, i) - gvb[i], p[5][i])]]
        F3 == [w \in 1..W |-> [i \in 1..N |-> faddeeva(v(w, i) + gvb[i], p[5][i])]]
    IN  _comp_numba(line_vec.mu, F1, F2, F3, p[2], p[3], p[6], p[7], p[8])

(* ------------------------------ arrays -------------------------------- *)

\* the absent optional argument (line_arg=None, noise_size=None)
None == <<>>

\* a parameter array: rank 1 (one row of C numbers) or rank 2 (N rows)
Array1(row) == [rank |-> 1, rows |-> <<row>>]

Array2(rows) == [rank |-> 2, rows |-> rows]

NRows(a) == Len(a.rows)

NCols(a) == Len(a.rows[1])

\* ndarray_copy returning the array itself, as a view would
ndarray_alias(h, r) == [heap |-> h, ref |-> r]

\* the arrays live in a heap, a sequence of arrays addressed by position:
\* a copy allocates, an in-place update rewrites the addressed array
\* np.array(a), a.astype(float).copy(), a[:, :9].copy()
ndarray_copy(h, r) == [heap |-> Append(h, h[r]), ref |-> Len(h) + 1]

\* shape of a rank-3 array
Shape3(a) == <<Len(a), Len(a[1]), Len(a[1][1])>>

\* numpy's broadcasting rule for two rank-3 shapes
Broadcastable(s, t) == \A d \in 1..3 : s[d] = t[d] \/ s[d] = 1 \/ t[d] = 1

BroadcastShape(s, t) == [d \in 1..3 |-> IF s[d] = 1 THEN t[d] ELSE s[d]]

\* index of a broadcast operand along an axis of the given size
Bx(j, size) == IF size = 1 THEN 1 ELSE j

\* x * y or x + y
Apply(op, x, y) == IF op = "*" THEN Mul(x, y) ELSE x + y

\* elementwise a * b or a + b of two broadcastable rank-3 arrays
BMap(op, a, b) ==
    LET s == Shape3(a)
        t == Shape3(b)
        u == BroadcastShape(s, t)
    IN  Eager([n \in 1..u[1] |-> Eager([w \in 1..u[2] |-> Eager([k \in 1..u[3] |->
            Apply(op, a[Bx(n, s[1])][Bx(w, s[2])][Bx(k, s[3])],
                      b[Bx(n, t[1])][Bx(w, t[2])][Bx(k, t[3])])])])])

(* ------------------------- parameter derivers ------------------------- *)

\* params[:, 6] /= cont; params[:, 7] /= cont
NormalizeRows(a, cont) ==
    [a EXCEPT !.rows = [i \in 1..Len(a.rows) |->
        [a.rows[i] EXCEPT ![7] = Div(@, cont[i]), ![8] = Div(@, cont[i])]]]

\* _prepare_base_model_parameters on the rank-2 array h[pv]: the heap
\* after the call and the 9 per-sample vectors
\* <<B, theta, xi, D, gamma, etta_0, S_0, S_1, Dop_shift>>;
\* err when a column the code indexes does not exist (IndexError)
_prepare_base_model_parameters(h, pv, line_vec, norm) ==
    LET N == NRows(h[pv])
        c == ndarray_copy(h, pv)
        cont == [i \in 1..N |-> h[pv].rows[i][7] + Mul(line_vec.mu, h[pv].rows[i][8])]
        h2 == IF norm THEN [c.heap EXCEPT ![c.ref] = NormalizeRows(@, cont)]
              ELSE c.heap
        params == h2[c.ref].rows
    IN  IF NCols(h[pv]) < 9
        THEN [err |-> TRUE, heap |-> h, ret |-> <<>>]
        ELSE [err |-> FALSE, heap |-> h2,
              ret |-> << [i \in 1..N |-> params[i][1]],
                         [i \in 1..N |-> Mul(Div(params[i][2], FxInt(180)), Pi)],
                         [i \in 1..N |-> Mul(Div(params[i][3], FxInt(180)), Pi)],
                         [i \in 1..N |-> params[i][4]],
                         [i \in 1..N |-> params[i][5]],
                         [i \in 1..N |-> params[i][6]],
                         [i \in 1..N |-> params[i][7]],
                         [i \in 1..N |-> params[i][8]],
                         [i \in 1..N |-> Mul(params[i][9], ShiftConst)] >>]

\* ZeroRows taking the substitute shift from the filling-factor column
ZeroRowsWrongColumn(a) ==
    [a EXCEPT !.rows = [i \in 1..Len(a.rows) |->
        [j \in 1..9 |-> IF j = 1 THEN 0
                        ELSE IF j = 9 THEN a.rows[i][10]
                        ELSE a.rows[i][j]]]]

\* params = param_vec[:, :9].copy(); params[:, 0] = 0;
\* params[:, 8] = param_vec[:, 10]
ZeroRows(a) ==
    [a EXCEPT !.rows = [i \in 1..Len(a.rows) |->
        [j \in 1..9 |-> IF j = 1 THEN 0
                        ELSE IF j = 9 THEN a.rows[i][11]
                        ELSE a.rows[i][j]]]]

\* _prepare_zero_model_parameters on the rank-2 array h[pv]
_prepare_zero_model_parameters(h, pv, line_vec, norm) ==
    LET c == ndarray_copy(h, pv)
        h2 == [c.heap EXCEPT ![c.ref] = ZeroRows(h[pv])]
    IN  IF NCols(h[pv]) < 11
        THEN [err |-> TRUE, heap |-> h, ret |-> <<>>]
        ELSE _prepare_base_model_parameters(h2, c.ref, line_vec, norm)

(* ----------------------------- noise ---------------------------------- *)

\* spectral points of the default noise_size
NoisePoints == 56

\* np.random.normal(size=size): the draw is an input of the model, one of
\* a few fields of values in {-1, -1/2, 0, 1/2, 1} picked by `seed`
np_random_normal(seed, size) ==
    [n \in 1..size[1] |-> [w \in 1..size[2] |-> [k \in 1..size[3] |->
        (((seed * 7 + n * 5 + w * 3 + k) % 5) - 2) * (Scale \div 2)]]]

\* generate_noise; a is the rank-2 parameter array.  err when noise_level
\* and the draw cannot be broadcast together (ValueError)
generate_noise(a, levels, noise_size, mu, norm, seed) ==
    LET N == NRows(a)
        size == IF noise_size = None THEN <<N, NoisePoints, 4>> ELSE noise_size
        cont == [i \in 1..N |-> a.rows[i][7] + Mul(mu, a.rows[i][8])]
        noise_level == IF norm
                       THEN [i \in 1..N |-> << [k \in 1..4 |-> Div(levels[k], cont[i])] >>]
                       ELSE << <<levels>> >>
    IN  IF ~Broadcastable(Shape3(noise_level), size)
        THEN [err |-> TRUE, noise |-> <<>>]
        ELSE [err |-> FALSE,
              noise |-> BMap("*", noise_level, np_random_normal(seed, size))]

(* ------------------------- synthesis facade --------------------------- *)

\* Blend with the two weights exchanged
BlendSwapped(a, spectrum, zero_spectrum) ==
    LET ff == [i \in 1..NRows(a) |-> << <<a.rows[i][10]>> >>]
        one_minus_ff == [i \in 1..NRows(a) |-> << <<FxInt(1) - a.rows[i][10]>> >>]
    IN  BMap("+", BMap("*", one_minus_ff, spectrum), BMap("*", ff, zero_spectrum))

\* ff * spectrum + (1 - ff) * zero_spectrum, ff = param_vec[:, 9] reshaped
\* to (N, 1, 1)
Blend(a, spectrum, zero_spectrum) ==
    LET ff == [i \in 1..NRows(a) |-> << <<a.rows[i][10]>> >>]
        one_minus_ff == [i \in 1..NRows(a) |-> << <<FxInt(1) - a.rows[i][10]>> >>]
    IN  BMap("+", BMap("*", ff, spectrum), BMap("*", one_minus_ff, zero_spectrum))

\* what a call of me_model leaves: how it ended, the returned array, the
\* heap, the number of parameter derivations and of kernel runs performed
Outcome(status, lines, h, derived_n, kernels) ==
    [status |-> status, lines |-> lines, heap |-> h,
     derivations |-> derived_n, kernels |-> kernels]

\* me_model(param_vec, line_arg, line_vec, with_ff, norm, with_noise,
\* noise_size=...) on the array h[pv]; seed picks the random draw
me_model(h, pv, line_arg, line_vec, with_ff, norm, with_noise, noise_size, seed) ==
    LET la == IF line_arg = None THEN default_line_arg ELSE line_arg
        c == ndarray_copy(h, pv)
        h1 == [c.heap EXCEPT ![c.ref] = Array2(@.rows)]
        base == _prepare_base_model_parameters(h1, c.ref, line_vec, norm)
        spectrum == _compute_spectrum(base.ret, la, line_vec)
        zero == _prepare_zero_model_parameters(base.heap, c.ref, line_vec, norm)
        zero_spectrum == _compute_spectrum(zero.ret, la, line_vec)
        h3 == IF with_ff THEN zero.heap ELSE base.heap
        quiet_spectrum == IF with_ff THEN Blend(h3[c.ref], spectrum, zero_spectrum)
                          ELSE spectrum
        kernels == IF with_ff THEN 2 ELSE 1
        gen == generate_noise(h3[c.ref], absolute_noise_levels, noise_size,
                              line_vec.mu, norm, seed)
    IN  IF base.err THEN Outcome("IndexError", <<>>, base.heap, 0, 0)
        ELSE IF with_ff /\ zero.err THEN Outcome("IndexError", <<>>, zero.heap, 1, 1)
        ELSE IF with_ff /\ NCols(h3[c.ref]) < 10
        THEN Outcome("IndexError", <<>>, h3, 2, 2)
        ELSE IF ~with_noise THEN Outcome("ok", quiet_spectrum, h3, kernels, kernels)
        ELSE IF gen.err \/ ~Broadcastable(Shape3(quiet_spectrum), Shape3(gen.noise))
        THEN Outcome("ValueError", <<>>, h3, kernels, kernels)
        ELSE Outcome("ok", BMap("+", quiet_spectrum, gen.noise), h3, kernels, kernels)

(* ------------------------------ inputs -------------------------------- *)

\* most samples in one batch
MaxN == 2

\* most points of a caller-supplied wavelength grid
MaxW == 3

\* number of distinct random draws
NSeeds == 2

\* columns of a well-formed parameter batch
ParamCount == 11

\* the number n / 10
Tenths(n) == (n * Scale) \div 10

\* parameter rows <<B, theta, azimuth, Doppler width, damping, line strength,
\* S0, S1, Doppler shift, filling factor, stray-light shift>>, in tenths
RowsInTenths ==
    << <<15000, 300, 450, 400, 5, 200, 6, 2, 20, 10, 0>>,
       <<0, 600, 200, 500, 3, 100, 5, 4, -10, 5, 10>>,
       <<10000, 900, 0, 600, 10, 50, 120000, 80000, 0, 0, -20>>,
       <<0, 1350, 1000, 450, 8, 150, 7, 3, 15, 10, -5>> >>

RowIds == 1..Len(RowsInTenths)

ParamRow(r) == [j \in 1..ParamCount |-> Tenths(RowsInTenths[r][j])]

\* the row cut or padded to c columns
RowOfCols(row, c) == [j \in 1..c |-> IF j <= Len(row) THEN row[j] ELSE 0]

\* a batch of n rows: r1 followed by n - 1 copies of r2
BatchRows(n, r1, r2) == [i \in 1..n |-> IF i = 1 THEN ParamRow(r1) ELSE ParamRow(r2)]

WellFormedArrays ==
    UNION {{Array2(BatchRows(n, r1, r2)) :
               n \in 1..MaxN, r2 \in {r1, 1 + (r1 % Len(RowsInTenths))}} : r1 \in RowIds}
    \cup {Array1(ParamRow(r)) : r \in RowIds}

\* arrays whose column count is not ParamCount
MalformedArrays ==
    {Array2(<<RowOfCols(ParamRow(1), c)>>) :
        c \in ((ParamCount - 3)..(ParamCount + 1)) \ {ParamCount}}
    \cup {Array2(<<RowOfCols(ParamRow(2), ParamCount + 1),
                   RowOfCols(ParamRow(3), ParamCount + 1)>>),
          Array1(RowOfCols(ParamRow(2), ParamCount - 1)),
          Array1(RowOfCols(ParamRow(3), ParamCount + 1))}

\* a caller-supplied grid of W points, in the unit of line_arg
custom_line_arg(W) == [j \in 1..W |-> FxInt(250 * (j - 1) - 300)]

LineArgs == {None} \cup {custom_line_arg(W) : W \in 1..MaxW}

(* ------------------------------- state --------------------------------- *)

VARIABLES
    param_vec,   \* the caller's parameter array
    last,        \* the last call on it: its arguments and what it returned
    first,       \* the first noise-free me_model call on it
    other,       \* a call with other arguments was made since `first`
    obj,         \* a HinodeME or BatchHinodeME object
    event,       \* the last constructor or method call on the wrapper classes
    ncalls,      \* compute_spectrum calls made on obj
    reading      \* the last call of read_full_spectra

core_vars == <<param_vec, last, first, other>>

wrapper_vars == <<obj, event, ncalls>>

vars == <<param_vec, last, first, other, obj, event, ncalls, reading>>

NoCall == [op |-> "none"]

NoObject == [cls |-> "none"]

\* number of spectral points of the grid a call uses
GridLen(line_arg) == IF line_arg = None THEN WavePoints ELSE Len(line_arg)

\* the record of a call of me_model and of what it returned
CallRecord(line_arg, with_ff, norm, with_noise, noise_size, seed, r) ==
    [op |-> "me_model", line_arg |-> line_arg, with_ff |-> with_ff,
     norm |-> norm, with_noise |-> with_noise, noise_size |-> noise_size,
     seed |-> seed, status |-> r.status, lines |-> r.lines,
     derivations |-> r.derivations, kernels |-> r.kernels]

\* the arguments of a recorded me_model call
ArgsOf(rec) == <<rec.line_arg, rec.with_ff, rec.norm, rec.with_noise>>

\* one call of me_model on the caller's array
MeModelCall(line_arg, with_ff, norm, with_noise, noise_size, seed) ==
    \E r \in {me_model(<<param_vec>>, 1, line_arg, line_vector, with_ff, norm,
                       with_noise, noise_size, seed)} :
        /\ param_vec' = r.heap[1]
        /\ last' = CallRecord(line_arg, with_ff, norm, with_noise, noise_size, seed, r)
        /\ first' = IF first = NoCall /\ ~with_noise THEN last' ELSE first
        /\ other' = (first # NoCall /\ (other \/ ArgsOf(first) # ArgsOf(last')))
        /\ UNCHANGED <<wrapper_vars, reading>>

\* the two derivers applied, one after the other, to the caller's array
DeriveCall(norm) ==
    \E b \in {_prepare_base_model_parameters(<<param_vec>>, 1, line_vector, norm)} :
      \E z \in {_prepare_zero_model_parameters(b.heap, 1, line_vector, norm)} :
        /\ param_vec.rank = 2
        /\ param_vec' = z.heap[1]
        /\ last' = [op |-> "derive", norm |-> norm,
                    base_err |-> b.err, base |-> b.ret,
                    zero_err |-> z.err, zero |-> z.ret]
        /\ UNCHANGED <<first, other, wrapper_vars, reading>>

Synthesize ==
    \E line_arg \in LineArgs, with_ff \in BOOLEAN, norm \in BOOLEAN :
        \/ MeModelCall(line_arg, with_ff, norm, FALSE, None, 0)
        \/ \E seed \in 1..NSeeds :
              MeModelCall(line_arg, with_ff, norm, TRUE, None, seed)

Derive == \E norm \in BOOLEAN : DeriveCall(norm)

Idle ==
    /\ last = NoCall /\ first = NoCall /\ other = FALSE
    /\ obj = NoObject /\ event = NoCall /\ ncalls = 0
    /\ reading = NoCall

\* one call of me_model, or of the derivers, on each input array
Init ==
    /\ param_vec \in WellFormedArrays \cup MalformedArrays
    /\ Idle

Next ==
    \/ last = NoCall /\ Synthesize
    \/ last = NoCall /\ Derive

Spec == Init /\ [][Next]_vars

(* --------------------- properties of the synthesis -------------------- *)

\* the call recorded in `last` is a call of me_model that returned an array
Returned == last.op = "me_model" /\ last.status = "ok"

\* the grid the recorded call used
GridOf(rec) == IF rec.line_arg = None THEN default_line_arg ELSE rec.line_arg

\* C1: a call of me_model on a batch whose column count is not 11 fails
\* before any parameter derivation or kernel run has been performed
C1_FailsFast ==
    (last.op = "me_model" /\ NCols(param_vec) # ParamCount)
        => (last.status # "ok" /\ last.derivations = 0 /\ last.kernels = 0)

\* C4: with noise requested and no explicit noise_size, the returned array
\* has shape (N, W, 4) for every grid length W
C4_NoiseShape ==
    (last.op = "me_model" /\ last.with_noise /\ last.noise_size = None
     /\ NCols(param_vec) = ParamCount)
        => (last.status = "ok"
            /\ Shape3(last.lines) = <<NRows(param_vec), GridLen(last.line_arg), 4>>)

\* C5: with blending, every value of the noise-free output is
\* ff * magnetic + (1 - ff) * stray; a sample with ff = 1 equals the
\* magnetic spectrum and a sample with ff = 0 equals the stray spectrum
C5_Blend ==
    (Returned /\ last.with_ff /\ ~last.with_noise) =>
        \E magnetic \in {me_model(<<param_vec>>, 1, last.line_arg, line_vector, FALSE,
                                  last.norm, FALSE, None, 0).lines} :
          \E stray \in {_compute_spectrum(
                            _prepare_zero_model_parameters(
                                <<Array2(param_vec.rows)>>, 1, line_vector, last.norm).ret,
                            GridOf(last), line_vector)} :
            \A n \in 1..NRows(param_vec) :
                /\ \A w \in 1..GridLen(last.line_arg), k \in 1..4 :
                      last.lines[n][w][k] =
                          Mul(param_vec.rows[n][10], magnetic[n][w][k])
                          + Mul(FxInt(1) - param_vec.rows[n][10], stray[n][w][k])
                /\ param_vec.rows[n][10] = FxInt(1) => last.lines[n] = magnetic[n]
                /\ param_vec.rows[n][10] = 0 => last.lines[n] = stray[n]

\* a blended call with a sample of ff = 1 whose stray spectrum differs from
\* its magnetic one, and a sample with 0 < ff < 1
C5_Witness ==
    /\ Returned /\ last.with_ff /\ ~last.with_noise
    /\ NRows(param_vec) = 2
    /\ param_vec.rows[1][10] = FxInt(1)
    /\ param_vec.rows[2][10] = Fx(1, 2)
    /\ last.lines[1] # _compute_spectrum(
                           _prepare_zero_model_parameters(
                               <<param_vec>>, 1, line_vector, last.norm).ret,
                           GridOf(last), line_vector)[1]

\* C6: a sample with B = 0 has Q, U and V exactly zero at every spectral
\* point of the noise-free output, blending on or off
C6_ZeroField ==
    (Returned /\ ~last.with_noise) =>
        \A n \in 1..NRows(param_vec) :
            param_vec.rows[n][1] = 0 =>
                \A w \in 1..GridLen(last.line_arg), k \in 2..4 : last.lines[n][w][k] = 0

\* a blended call on a batch with a B = 0 sample next to a sample whose
\* V is not zero
C6_Witness ==
    /\ Returned /\ ~last.with_noise /\ last.with_ff
    /\ NRows(param_vec) = 2
    /\ param_vec.rows[2][1] = 0
    /\ param_vec.rows[1][1] # 0
    /\ \E w \in 1..GridLen(last.line_arg) : last.lines[1][w][4] # 0

\* C7: sample i of the noise-free output of a batch is what me_model
\* returns for row i alone
C7_PerSample ==
    (Returned /\ ~last.with_noise) =>
        \A n \in 1..NRows(param_vec) :
            \E alone \in {me_model(<<Array2(<<param_vec.rows[n]>>)>>, 1, last.line_arg,
                                   line_vector, last.with_ff, last.norm, FALSE, None, 0)} :
                /\ alone.status = "ok"
                /\ last.lines[n] = alone.lines[1]

\* a call on a batch of two different rows with different spectra
C7_Witness ==
    /\ Returned /\ ~last.with_noise
    /\ NRows(param_vec) = 2
    /\ param_vec.rows[1] # param_vec.rows[2]
    /\ last.lines[1] # last.lines[2]

\* C9: the zero policy returns the base policy's values except that B is
\* zero and the Doppler shift is derived from field 10
C9_ZeroPolicy ==
    (last.op = "derive" /\ ~last.zero_err) =>
        /\ ~last.base_err
        /\ \A i \in 1..NRows(param_vec) :
              /\ last.zero[1][i] = 0
              /\ \A j \in 2..8 : last.zero[j][i] = last.base[j][i]
              /\ last.zero[9][i] = Mul(param_vec.rows[i][11], ShiftConst)

\* normalised derivation of a sample with B # 0 whose two shifts differ
C9_Witness ==
    /\ last.op = "derive" /\ ~last.zero_err /\ last.norm
    /\ last.base[1][1] # 0
    /\ last.zero[9][1] # last.base[9][1]
    /\ last.zero[7][1] # param_vec.rows[1][7]

\* repeated noise-free calls of me_model on one array
SynthesizeAgain ==
    \E W \in {1, MaxW}, with_ff \in BOOLEAN, norm \in BOOLEAN :
        MeModelCall(custom_line_arg(W), with_ff, norm, FALSE, None, 0)

InitRepeat ==
    /\ param_vec \in {Array2(BatchRows(n, r, 1 + (r % Len(RowsInTenths)))) :
                         n \in 1..MaxN, r \in RowIds}
    /\ Idle

SpecRepeat == InitRepeat /\ [][SynthesizeAgain]_vars

\* C8: a noise-free call of me_model leaves the caller's batch as it was,
\* and returns what the first call with the same arguments returned,
\* whatever calls were made in between
C8_Stateless ==
    [][/\ param_vec' = param_vec
       /\ ArgsOf(last') = ArgsOf(first') =>
              (last'.status = first'.status /\ last'.lines = first'.lines)]_vars

\* a call is repeated after a call with other arguments, normalisation
\* and blending on, and returns an array
C8_Witness ==
    /\ other
    /\ ArgsOf(last) = ArgsOf(first)
    /\ Returned /\ last.norm /\ last.with_ff
    /\ NRows(param_vec) = MaxN

(* --------------------------- wrapper classes -------------------------- *)

\* len(a) of an array
len(a) == IF a.rank = 1 THEN NCols(a) ELSE NRows(a)

\* np.amax over a set of values
SetMax(S) == CHOOSE m \in S : \A x \in S : x <= m

\* np.amax(lines)
amax(lines) ==
    SetMax({lines[n][w][k] : n \in 1..Len(lines), w \in 1..Len(lines[1]), k \in 1..4})

\* np.amax(lines.reshape(-1, 224), axis=1)
amax_axis1(lines) ==
    [n \in 1..Len(lines) |-> SetMax({lines[n][w][k] : w \in 1..Len(lines[n]), k \in 1..4})]

\* HinodeME(param_vec); array is its rank-1 argument
HinodeME(array) ==
    IF len(array) # 11
    THEN [status |-> "AssertionError", obj |-> NoObject]
    ELSE [status |-> "ok",
          obj |-> [cls |-> "HinodeME", param_vector |-> array,
                   cont |-> array.rows[1][7]
                            + Mul(line_vector.mu, array.rows[1][8])]]

\* BatchHinodeME(param_vec); array is its argument
BatchHinodeME(array) ==
    IF array.rank < 2
    THEN [status |-> "IndexError", obj |-> NoObject]
    ELSE IF NCols(array) # 11
    THEN [status |-> "AssertionError", obj |-> NoObject]
    ELSE [status |-> "ok",
          obj |-> [cls |-> "BatchHinodeME", param_vector |-> array,
                   cont |-> [i \in 1..NRows(array) |->
                                array.rows[i][7]
                                + Mul(line_vector.mu, array.rows[i][8])]]]

\* what a constructor call leaves: how it ended, the object, and the number
\* of parameter values read from the table or the maps
Built(status, o, reads) == [status |-> status, obj |-> o, reads |-> reads]

\* HinodeME.from_parameters_base(idx, parameters_base)
from_parameters_base(idx, parameters_base) ==
    IF ~(idx >= 0 /\ idx < NRows(parameters_base))
    THEN Built("AssertionError", NoObject, 0)
    ELSE Built(HinodeME(Array1(parameters_base.rows[idx + 1])).status,
               HinodeME(Array1(parameters_base.rows[idx + 1])).obj,
               NCols(parameters_base))

\* rows of the parameter maps named in from_refer
RefRows == 512

\* columns of the parameter maps named in from_refer
RefCols == 873

param_list == <<1, 2, 3, 6, 8, 7, 9, 10, 5, 12, 13>>

\* position of field i in param_list, 0 when it is not there
FieldOf(i) == IF \E j \in 1..Len(param_list) : param_list[j] = i
              THEN CHOOSE j \in 1..Len(param_list) : param_list[j] = i
              ELSE 0

\* refer[i].data[y, x] of the maps tried
MapData(i, y, x) ==
    IF FieldOf(i) = 0 THEN 0
    ELSE ParamRow(1 + ((y + x) % Len(RowsInTenths)))[FieldOf(i)]

\* HinodeME.from_refer(idx_0, idx_1, refer); refer gives the shape of the
\* maps, MapData their values
from_refer(idx_0, idx_1, refer) ==
    IF ~(idx_0 >= 0 /\ idx_1 < RefRows)
    THEN Built("AssertionError", NoObject, 0)
    ELSE IF ~(idx_1 >= 0 /\ idx_1 < RefCols)
    THEN Built("AssertionError", NoObject, 0)
    ELSE IF idx_0 >= refer.rows \/ idx_1 >= refer.cols
    THEN Built("IndexError", NoObject, 0)
    ELSE Built("ok",
               HinodeME(Array1([j \in 1..Len(param_list) |->
                                   MapData(param_list[j], idx_0, idx_1)])).obj,
               Len(param_list))

\* cont after compute_spectrum returned lines
NewCont(o, lines) ==
    IF o.cls = "HinodeME" THEN Mul(amax(lines), o.cont)
    ELSE [i \in 1..Len(o.cont) |-> Mul(amax_axis1(lines)[i], o.cont[i])]

(* ------------------------ wrapper objects in use ---------------------- *)

\* indices tried along the first axis of the maps
Idx0s == {-1, 0, RefRows - 1, RefRows, 2 * RefRows - 1}

\* indices tried along the second axis of the maps
Idx1s == {-1, 0, RefRows - 1, RefRows, RefCols - 1, RefCols}

\* the maps as documented, and maps twice as tall
Refers == {[rows |-> RefRows * t, cols |-> RefCols] : t \in 1..2}

\* the in-memory tables tried
Tables == {Array2([i \in 1..n |-> ParamRow(1 + ((i + d) % Len(RowsInTenths)))]) :
              n \in 1..MaxN, d \in 0..1}

\* the batches given to BatchHinodeME
Batches ==
    {Array2(BatchRows(n, r, 1 + (r % Len(RowsInTenths)))) : n \in 1..MaxN, r \in RowIds}
    \cup {Array2(<<RowOfCols(ParamRow(1), ParamCount + 1)>>), Array1(ParamRow(1))}

\* the vectors given to HinodeME
Vectors ==
    {Array1(ParamRow(r)) : r \in RowIds}
    \cup {Array1(RowOfCols(ParamRow(1), c)) : c \in {ParamCount - 1, ParamCount + 1}}

Construct(rec, b) ==
    /\ obj = NoObject /\ event = NoCall
    /\ obj' = b.obj
    /\ event' = rec @@ [status |-> b.status, reads |-> b.reads]
    /\ ncalls' = 0
    /\ UNCHANGED <<core_vars, reading>>

NewHinodeME ==
    \E v \in Vectors : \E b \in {HinodeME(v)} :
        Construct([op |-> "HinodeME"], Built(b.status, b.obj, 0))

NewBatchHinodeME ==
    \E a \in Batches : \E b \in {BatchHinodeME(a)} :
        Construct([op |-> "BatchHinodeME"], Built(b.status, b.obj, 0))

FromParametersBase ==
    \E t \in Tables, idx \in -1..(MaxN + 1) :
        Construct([op |-> "from_parameters_base", idx |-> idx, rows |-> NRows(t)],
                  from_parameters_base(idx, t))

FromRefer ==
    \E refer \in Refers, idx_0 \in Idx0s, idx_1 \in Idx1s :
        Construct([op |-> "from_refer", idx_0 |-> idx_0, idx_1 |-> idx_1,
                   refer |-> refer],
                  from_refer(idx_0, idx_1, refer))

\* compute_spectrum(with_ff, with_noise) on obj
ComputeSpectrum(with_ff, with_noise, seed) ==
    \E r \in {me_model(<<obj.param_vector>>, 1, default_line_arg, line_vector,
                       with_ff, TRUE, with_noise, None, seed)} :
        /\ r.status = "ok"
        /\ obj' = [obj EXCEPT !.param_vector = r.heap[1], !.cont = NewCont(obj, r.lines)]
        /\ event' = [op |-> "compute_spectrum", status |-> r.status, lines |-> r.lines,
                     with_noise |-> with_noise, before |-> obj.param_vector]
        /\ ncalls' = ncalls + 1
        /\ UNCHANGED <<core_vars, reading>>

Compute ==
    /\ obj # NoObject
    /\ ncalls < MaxCalls
    /\ \E with_ff \in BOOLEAN :
          \/ ComputeSpectrum(with_ff, FALSE, 0)
          \/ \E seed \in 1..NSeeds : ComputeSpectrum(with_ff, TRUE, seed)

InitWrap ==
    /\ param_vec = Array1(ParamRow(1))
    /\ Idle

NextWrap ==
    \/ NewHinodeME
    \/ NewBatchHinodeME
    \/ FromParametersBase
    \/ FromRefer
    \/ Compute

SpecWrap == InitWrap /\ [][NextWrap]_vars

\* C2: an index constructor given an index out of range fails, and reads
\* no parameter value: from_refer with idx_0 outside [0, 512) or idx_1
\* outside [0, 873), from_parameters_base with idx outside [0, rows)
C2_IndexFailsFast ==
    /\ (event.op = "from_refer"
        /\ ~(event.idx_0 >= 0 /\ event.idx_0 < RefRows
             /\ event.idx_1 >= 0 /\ event.idx_1 < RefCols))
           => (event.status # "ok" /\ event.reads = 0 /\ obj = NoObject)
    /\ (event.op = "from_parameters_base"
        /\ ~(event.idx >= 0 /\ event.idx < event.rows))
           => (event.status # "ok" /\ event.reads = 0 /\ obj = NoObject)

\* S0 + mu * S1 of row i of the object's parameters
OriginalCont(o, i) ==
    o.param_vector.rows[i][7] + Mul(line_vector.mu, o.param_vector.rows[i][8])

\* C3: after every compute_spectrum, cont is max(output of that call)
\* times the continuum S0 + mu * S1 computed at construction (per sample
\* for BatchHinodeME), and param_vector is as it was
C3_ContFromThisCall ==
    event.op = "compute_spectrum" =>
        /\ obj.param_vector = event.before
        /\ obj.cls = "HinodeME" =>
              obj.cont = Mul(amax(event.lines), OriginalCont(obj, 1))
        /\ obj.cls = "BatchHinodeME" =>
              \A i \in 1..NRows(obj.param_vector) :
                  obj.cont[i] = Mul(amax_axis1(event.lines)[i], OriginalCont(obj, i))

(* ------------------------ calibrated-spectrum reader ------------------ *)

\* number of different calibrated-spectrum files
FileKinds == 3

\* raw columns of one Stokes plane of a file: the reader keeps those from
\* column WavePoints on
RawCols == 2 * WavePoints

\* spectra_file[0].data[k][y, c] of file f, a raw detector count
FileData(f, k, y, c) ==
    ((f * 37 + k * 11 + y * 17 + c * 3) % 50) + 40 * f + 15 * y
    + (IF k = 1 THEN 200 ELSE 0)

\* the amplitude correction of Stokes plane k: I * 2, Q, U, V * 3
Amplitude(k) == IF k = 1 THEN 2 ELSE 3

\* row y of real_sp of file f: np.concatenate((real_I, real_Q, real_U,
\* real_V), axis=1) of the planes cut by [:, 56:] and corrected
real_sp(f, y) ==
    Eager([j \in 1..(4 * (RawCols - WavePoints)) |->
        FxInt(FileData(f, 1 + ((j - 1) \div (RawCols - WavePoints)), y,
                       WavePoints + 1 + ((j - 1) % (RawCols - WavePoints)))
              * Amplitude(1 + ((j - 1) \div (RawCols - WavePoints))))])

\* np.reshape(np.max(real_sp, axis=1), (-1, 1)) of file f
normalization(f) == [y \in 1..Y_len |-> <<SeqMax(real_sp(f, y))>>]

\* real_sp /= normalization, one row
NormalizedRow(row, m) == Eager([j \in 1..Len(row) |-> Div(row[j], m)])

\* read_full_spectra(cont_scale, files_list=files_list)
read_full_spectra(cont_scale, files_list) ==
    IF Len(files_list) = 0
    THEN [status |-> "UnboundLocalError", full_spectra |-> <<>>, second |-> <<>>]
    ELSE [status |-> "ok",
          full_spectra |-> [x \in 1..Len(files_list) |-> [y \in 1..Y_len |->
              NormalizedRow(real_sp(files_list[x], y),
                            normalization(files_list[x])[y][1])]],
          second |-> [y \in 1..Y_len |->
              <<Div(normalization(files_list[Len(files_list)])[y][1], cont_scale)>>]]

\* sequences over S of length at most n
RECURSIVE SeqsUpTo(_, _)
SeqsUpTo(S, n) ==
    IF n = 0 THEN {<<>>}
    ELSE SeqsUpTo(S, n - 1)
         \cup {Append(q, f) : q \in {t \in SeqsUpTo(S, n - 1) : Len(t) = n - 1}, f \in S}

ContScales == {FxInt(1), FxInt(2), FxInt(40)}

ReadFullSpectra ==
    /\ reading = NoCall
    /\ \E cont_scale \in ContScales, files_list \in SeqsUpTo(1..FileKinds, MaxFiles) :
         \E r \in {read_full_spectra(cont_scale, files_list)} :
            reading' = [op |-> "read_full_spectra", cont_scale |-> cont_scale,
                        files_list |-> files_list, status |-> r.status,
                        full_spectra |-> r.full_spectra, second |-> r.second]
    /\ UNCHANGED <<core_vars, wrapper_vars>>

SpecRead == InitWrap /\ [][ReadFullSpectra]_vars

\* the second returned value has an entry for every file and detector
\* row; the value of a single file may come as a column
HasEntries(second, X) ==
    \/ X = 1 /\ Len(second) = Y_len /\ \A y \in 1..Y_len : Len(second[y]) = 1
    \/ Len(second) = X /\ \A x \in 1..X : Len(second[x]) = Y_len

\* its entry for file x and detector row y
EntryOf(second, X, x, y) ==
    IF X = 1 /\ Len(second[y]) = 1 THEN second[y][1] ELSE second[x][y]

\* C10: for a non-empty list of files, the second value returned by
\* read_full_spectra holds, for every file x and detector row y, the
\* per-row maximum of row y of file x divided by cont_scale
C10_NormalizationOfEveryFile ==
    (reading.op = "read_full_spectra" /\ Len(reading.files_list) >= 1) =>
        /\ reading.status = "ok"
        /\ HasEntries(reading.second, Len(reading.files_list))
        /\ \A x \in 1..Len(reading.files_list), y \in 1..Y_len :
              EntryOf(reading.second, Len(reading.files_list), x, y)
                  = Div(SeqMax(real_sp(reading.files_list[x], y)), reading.cont_scale)

=============================================================================
